---- MODULE Spec2Model ----
(***************************************************************************)
(* Model of the CSS selector builder of src/src/05-objects-tasks.js:       *)
(* class MyBuilder and the cssSelectorBuilder facade.                      *)
(*                                                                         *)
(* A JavaScript string is a sequence of one-character strings, an Array of *)
(* six numbers is a sequence of length six (JavaScript index i is TLA+     *)
(* index i + 1), an object reference is an index into the heap objs.       *)
(***************************************************************************)
EXTENDS Integers, Sequences, FiniteSets, TLC

\* ---- bounds ----
\* Largest number of MyBuilder instances the callers allocate.
MaxBuilders == 2
\* Largest number of successful mutating calls (facade constructions,
\* appended parts, combines) over all instances together.
MaxCalls == 3
\* Largest number of successful mutating calls made on two builders that
\* are combined first.
MaxPairCalls == 2
\* Largest number of fields of a value handed to getJSON.
MaxFields == 2

\* ---- inputs the callers draw from ----
\* Raw values passed to the append methods and to the facade. A value may
\* hold a character that is also a rendering prefix, as 'href$=".png"' does.
Texts == { <<"a", ".">> }
\* Combinator symbols passed to combine.
Combinators == { <<" ">>, <<"+">> }

\* ---- program constants ----
TYPES_OF_PARTS ==
  [ ELEMENT |-> 0, ID |-> 1, CLASS |-> 2, ATTR |-> 3,
    PSEUDO_CLASS |-> 4, PSEUDO_ELEMENT |-> 5 ]

PartTypes == 0 .. 5

\* The two messages of the Errors the builder throws; NoError: no throw.
DuplicateFragmentError ==
  "Element, id and pseudo-element should not occur more then one time inside the selector"
OutOfOrderError ==
  "Selector parts should be arranged in the following order: element, id, class, attribute, pseudo-class, pseudo-element"
NoError == ""

VARIABLES
  objs,   \* heap: objs[r] is the MyBuilder instance with reference r
  hist,   \* hist[r]: the calls that have mutated instance r, in call order,
          \* each with its arguments
  last,   \* the most recent call: its method, its receiver, what it threw
          \* or returned
  room,   \* the number of successful mutating calls the callers may still
          \* make
  trip    \* the caller of getJSON and fromJSON: its value, its prototype,
          \* the text and the object the two functions have returned

vars == << objs, hist, last, room, trip >>

\* ---- MyBuilder ----

\* A method call evaluates to the object after the call and what was thrown.
Thrown(obj, error) == [ obj |-> obj, thrown |-> error ]
Done(obj) == [ obj |-> obj, thrown |-> NoError ]

\* new Array(6).fill(0)
ZeroPresence == [ i \in 1 .. 6 |-> 0 ]

\* partsPresence.slice(newPartType + 1).filter((item) => item > 0).length
LaterPresent(partsPresence, newPartType) ==
  Len(SelectSeq(SubSeq(partsPresence, newPartType + 2, Len(partsPresence)),
                LAMBDA item : item > 0))

\* Variant: the slice starts one place too late, slice(newPartType + 2).
isCorrectOrderForNewPart_skipNext(partsPresence, newPartType) ==
  LaterPresent(partsPresence, newPartType + 1) = 0

\* Variant: the slice starts at the new part's own place, slice(newPartType).
isCorrectOrderForNewPart_fromSelf(partsPresence, newPartType) ==
  LaterPresent(partsPresence, newPartType - 1) = 0

isCorrectOrderForNewPart(partsPresence, newPartType) ==
  LaterPresent(partsPresence, newPartType) = 0

\* Variant: the pseudo-element case adds a single colon.
PartText_singleColon(str, typeOfPart) ==
  CASE typeOfPart = TYPES_OF_PARTS.ELEMENT        -> str
    [] typeOfPart = TYPES_OF_PARTS.ID             -> <<"#">> \o str
    [] typeOfPart = TYPES_OF_PARTS.CLASS          -> <<".">> \o str
    [] typeOfPart = TYPES_OF_PARTS.PSEUDO_CLASS   -> <<":">> \o str
    [] typeOfPart = TYPES_OF_PARTS.PSEUDO_ELEMENT -> <<":">> \o str
    [] typeOfPart = TYPES_OF_PARTS.ATTR           -> <<"[">> \o str \o <<"]">>
    [] OTHER                                      -> << >>

\* The text the switch of addNewPartInLine adds to this.line.
PartText(str, typeOfPart) ==
  CASE typeOfPart = TYPES_OF_PARTS.ELEMENT        -> str
    [] typeOfPart = TYPES_OF_PARTS.ID             -> <<"#">> \o str
    [] typeOfPart = TYPES_OF_PARTS.CLASS          -> <<".">> \o str
    [] typeOfPart = TYPES_OF_PARTS.PSEUDO_CLASS   -> <<":">> \o str
    [] typeOfPart = TYPES_OF_PARTS.PSEUDO_ELEMENT -> <<":", ":">> \o str
    [] typeOfPart = TYPES_OF_PARTS.ATTR           -> <<"[">> \o str \o <<"]">>
    [] OTHER                                      -> << >>


\* Variant: the occurrence is counted before the order is checked.
addNewPartInLine_countFirst(obj, str, typeOfPart) ==
  LET counted == [ obj EXCEPT !.partsPresence[typeOfPart + 1] = @ + 1 ]
  IN IF ~isCorrectOrderForNewPart(obj.partsPresence, typeOfPart)
     THEN Thrown(counted, OutOfOrderError)
     ELSE Done([ counted EXCEPT
                   !.line = @ \o PartText(str, typeOfPart) ])

addNewPartInLine(obj, str, typeOfPart) ==
  IF ~isCorrectOrderForNewPart(obj.partsPresence, typeOfPart)
  THEN Thrown(obj, OutOfOrderError)
  ELSE Done([ line |-> obj.line \o PartText(str, typeOfPart),
              partsPresence |->
                [ obj.partsPresence EXCEPT ![typeOfPart + 1] = @ + 1 ] ])

\* Variant: the constructor writes the text without recording the part.
constructor_unseeded(initStr, typeOfPart) ==
  Done([ line |-> PartText(initStr, typeOfPart),
         partsPresence |-> ZeroPresence ])

constructor(initStr, typeOfPart) ==
  addNewPartInLine([ line |-> << >>, partsPresence |-> ZeroPresence ],
                   initStr, typeOfPart)

\* Variant: the order is checked before the repetition.
MyBuilder_element_orderFirst(obj, str) ==
  IF ~isCorrectOrderForNewPart(obj.partsPresence, TYPES_OF_PARTS.ELEMENT)
  THEN Thrown(obj, OutOfOrderError)
  ELSE IF obj.partsPresence[TYPES_OF_PARTS.ELEMENT + 1] # 0
       THEN Thrown(obj, DuplicateFragmentError)
       ELSE addNewPartInLine(obj, str, TYPES_OF_PARTS.ELEMENT)

MyBuilder_element(obj, str) ==
  IF obj.partsPresence[TYPES_OF_PARTS.ELEMENT + 1] # 0
  THEN Thrown(obj, DuplicateFragmentError)
  ELSE addNewPartInLine(obj, str, TYPES_OF_PARTS.ELEMENT)

\* Variant: class carries the repetition check of element and id.
MyBuilder_class_once(obj, str) ==
  IF obj.partsPresence[TYPES_OF_PARTS.CLASS + 1] # 0
  THEN Thrown(obj, DuplicateFragmentError)
  ELSE addNewPartInLine(obj, str, TYPES_OF_PARTS.CLASS)

MyBuilder_class(obj, str) ==
  addNewPartInLine(obj, str, TYPES_OF_PARTS.CLASS)

\* Variant: id lacks the repetition check.
MyBuilder_id_unchecked(obj, str) ==
  addNewPartInLine(obj, str, TYPES_OF_PARTS.ID)

MyBuilder_id(obj, str) ==
  IF obj.partsPresence[TYPES_OF_PARTS.ID + 1] # 0
  THEN Thrown(obj, DuplicateFragmentError)
  ELSE addNewPartInLine(obj, str, TYPES_OF_PARTS.ID)

MyBuilder_attr(obj, str) ==
  addNewPartInLine(obj, str, TYPES_OF_PARTS.ATTR)

MyBuilder_pseudoClass(obj, str) ==
  addNewPartInLine(obj, str, TYPES_OF_PARTS.PSEUDO_CLASS)

MyBuilder_pseudoElement(obj, str) ==
  IF obj.partsPresence[TYPES_OF_PARTS.PSEUDO_ELEMENT + 1] # 0
  THEN Thrown(obj, DuplicateFragmentError)
  ELSE addNewPartInLine(obj, str, TYPES_OF_PARTS.PSEUDO_ELEMENT)

\* Variant: the template has no spaces around the combinator.
combineTail_tight(obj, combinator, lineStr) ==
  Done([ obj EXCEPT !.line = @ \o combinator \o lineStr ])

\* Variant: the line is assigned, not added to.
combineTail_assign(obj, combinator, lineStr) ==
  Done([ obj EXCEPT !.line = <<" ">> \o combinator \o <<" ">> \o lineStr ])

\* Variant: the right-hand text is put in front of the line.
combineTail_prepend(obj, combinator, lineStr) ==
  Done([ obj EXCEPT
           !.line = lineStr \o <<" ">> \o combinator \o <<" ">> \o @ ])

\* Variant: a combine starts the occurrence counts afresh.
combineTail_restart(obj, combinator, lineStr) ==
  Done([ line |-> obj.line \o <<" ">> \o combinator \o <<" ">> \o lineStr,
         partsPresence |-> ZeroPresence ])

combineTail(obj, combinator, lineStr) ==
  Done([ obj EXCEPT
           !.line = @ \o <<" ">> \o combinator \o <<" ">> \o lineStr ])

MyBuilder_stringify(obj) == obj.line

\* ---- the calls ----

Refs == 1 .. Len(objs)

TotalCalls == LET RECURSIVE Sum(_)
                  Sum(r) == IF r = 0 THEN 0 ELSE Len(hist[r]) + Sum(r - 1)
              IN Sum(Len(hist))

PartEvent(typeOfPart, str) ==
  [ ev |-> "part", type |-> typeOfPart, str |-> str,
    combinator |-> << >>, lineStr |-> << >> ]

TailEvent(combinator, lineStr) ==
  [ ev |-> "tail", type |-> 0, str |-> << >>,
    combinator |-> combinator, lineStr |-> lineStr ]

NoCall ==
  [ op |-> "none", self |-> 0, other |-> 0,
    thrown |-> NoError, retObj |-> 0, retStr |-> << >> ]

\* A call that may grow an instance is taken only while the bound allows.
Room(res) == res.thrown = NoError => room > 0
Spend(res) == room' = IF res.thrown = NoError THEN room - 1 ELSE room

\* Variant: partsPresence is one array shared by all instances.
CallAppend_shared(self, op, typeOfPart, str, res) ==
  /\ Room(res)
  /\ objs' = [ q \in 1 .. Len(objs) |->
                 IF q = self THEN res.obj
                 ELSE [ objs[q] EXCEPT !.partsPresence = res.obj.partsPresence ] ]
  /\ hist' = IF res.thrown = NoError
             THEN [ hist EXCEPT ![self] = Append(@, PartEvent(typeOfPart, str)) ]
             ELSE hist
  /\ last' = [ NoCall EXCEPT !.op = op, !.self = self, !.thrown = res.thrown,
                 !.retObj = IF res.thrown = NoError THEN self ELSE 0 ]
  /\ Spend(res)
  /\ UNCHANGED trip

\* obj.method(str) of an append method: the method mutates this and returns
\* this, or throws.
CallAppend(self, op, typeOfPart, str, res) ==
  /\ Room(res)
  /\ objs' = [ objs EXCEPT ![self] = res.obj ]
  /\ hist' = IF res.thrown = NoError
             THEN [ hist EXCEPT ![self] = Append(@, PartEvent(typeOfPart, str)) ]
             ELSE hist
  /\ last' = [ NoCall EXCEPT !.op = op, !.self = self, !.thrown = res.thrown,
                 !.retObj = IF res.thrown = NoError THEN self ELSE 0 ]
  /\ Spend(res)
  /\ UNCHANGED trip

element(self, str) ==
  CallAppend(self, "element", TYPES_OF_PARTS.ELEMENT, str,
             MyBuilder_element(objs[self], str))

class(self, str) ==
  CallAppend(self, "class", TYPES_OF_PARTS.CLASS, str,
             MyBuilder_class(objs[self], str))

id(self, str) ==
  CallAppend(self, "id", TYPES_OF_PARTS.ID, str,
             MyBuilder_id(objs[self], str))

attr(self, str) ==
  CallAppend(self, "attr", TYPES_OF_PARTS.ATTR, str,
             MyBuilder_attr(objs[self], str))

pseudoClass(self, str) ==
  CallAppend(self, "pseudoClass", TYPES_OF_PARTS.PSEUDO_CLASS, str,
             MyBuilder_pseudoClass(objs[self], str))

pseudoElement(self, str) ==
  CallAppend(self, "pseudoElement", TYPES_OF_PARTS.PSEUDO_ELEMENT, str,
             MyBuilder_pseudoElement(objs[self], str))

\* Variant: stringify hands the text out and empties the line.
stringify_reset(self) ==
  /\ last' = [ NoCall EXCEPT !.op = "stringify", !.self = self,
                 !.retStr = MyBuilder_stringify(objs[self]) ]
  /\ objs' = [ objs EXCEPT ![self].line = << >> ]
  /\ UNCHANGED << hist, room, trip >>

stringify(self) ==
  /\ last' = [ NoCall EXCEPT !.op = "stringify", !.self = self,
                 !.retStr = MyBuilder_stringify(objs[self]) ]
  /\ UNCHANGED << objs, hist, room, trip >>

\* cssSelectorBuilder.element(value) ... pseudoElement(value):
\* return new MyBuilder(value, type). A throwing constructor yields no object.
CallNew(op, typeOfPart, value, res) ==
  /\ Len(objs) < MaxBuilders
  /\ Room(res)
  /\ objs' = IF res.thrown = NoError THEN Append(objs, res.obj) ELSE objs
  /\ hist' = IF res.thrown = NoError
             THEN Append(hist, << PartEvent(typeOfPart, value) >>)
             ELSE hist
  /\ last' = [ NoCall EXCEPT !.op = op, !.thrown = res.thrown,
                 !.retObj = IF res.thrown = NoError THEN Len(objs) + 1 ELSE 0 ]
  /\ Spend(res)
  /\ UNCHANGED trip

cssSelectorBuilder_element(value) ==
  CallNew("new element", TYPES_OF_PARTS.ELEMENT, value,
          constructor(value, TYPES_OF_PARTS.ELEMENT))

cssSelectorBuilder_id(value) ==
  CallNew("new id", TYPES_OF_PARTS.ID, value,
          constructor(value, TYPES_OF_PARTS.ID))

cssSelectorBuilder_class(value) ==
  CallNew("new class", TYPES_OF_PARTS.CLASS, value,
          constructor(value, TYPES_OF_PARTS.CLASS))

cssSelectorBuilder_attr(value) ==
  CallNew("new attr", TYPES_OF_PARTS.ATTR, value,
          constructor(value, TYPES_OF_PARTS.ATTR))

cssSelectorBuilder_pseudoClass(value) ==
  CallNew("new pseudoClass", TYPES_OF_PARTS.PSEUDO_CLASS, value,
          constructor(value, TYPES_OF_PARTS.PSEUDO_CLASS))

cssSelectorBuilder_pseudoElement(value) ==
  CallNew("new pseudoElement", TYPES_OF_PARTS.PSEUDO_ELEMENT, value,
          constructor(value, TYPES_OF_PARTS.PSEUDO_ELEMENT))

\* Variant: combine takes the text out of the right operand.
cssSelectorBuilder_combine_drain(selector1, combinator, selector2) ==
  LET lineStr == MyBuilder_stringify(objs[selector2])
      res == combineTail(objs[selector1], combinator, lineStr)
  IN /\ Room(res)
     /\ objs' = [ [ objs EXCEPT ![selector2].line = << >> ]
                    EXCEPT ![selector1] = res.obj ]
     /\ hist' = [ hist EXCEPT
                    ![selector1] = Append(@, TailEvent(combinator, lineStr)) ]
     /\ last' = [ NoCall EXCEPT !.op = "combine", !.self = selector1,
                    !.other = selector2, !.retObj = selector1 ]
     /\ Spend(res)
     /\ UNCHANGED trip

\* cssSelectorBuilder.combine(selector1, combinator, selector2):
\* selector2.stringify() is evaluated first, then selector1.combineTail.
cssSelectorBuilder_combine(selector1, combinator, selector2) ==
  LET lineStr == MyBuilder_stringify(objs[selector2])
      res == combineTail(objs[selector1], combinator, lineStr)
  IN /\ Room(res)
     /\ objs' = [ objs EXCEPT ![selector1] = res.obj ]
     /\ hist' = [ hist EXCEPT
                    ![selector1] = Append(@, TailEvent(combinator, lineStr)) ]
     /\ last' = [ NoCall EXCEPT !.op = "combine", !.self = selector1,
                    !.other = selector2, !.retObj = selector1 ]
     /\ Spend(res)
     /\ UNCHANGED trip

\* ---- getJSON and fromJSON ----

\* A plain object is the sequence of its own fields in property order; a
\* field value is a non-negative integer or a string of letters.
Num(n) == [ t |-> "num", n |-> n, s |-> << >> ]
Str(s) == [ t |-> "str", n |-> 0, s |-> s ]
Field(key, val) == [ key |-> key, val |-> val ]

DigitChars == << "0", "1", "2", "3", "4", "5", "6", "7", "8", "9" >>
IsDigit(c) == \E d \in 1 .. 10 : DigitChars[d] = c
DigitVal(c) == (CHOOSE d \in 1 .. 10 : DigitChars[d] = c) - 1
Quote == "\""

\* JSON.stringify of a number, a string, an object.
RECURSIVE NumberText(_)
NumberText(n) ==
  IF n < 10 THEN << DigitChars[n + 1] >>
  ELSE NumberText(n \div 10) \o << DigitChars[(n % 10) + 1] >>

ValueText(val) ==
  IF val.t = "num" THEN NumberText(val.n) ELSE <<Quote>> \o val.s \o <<Quote>>

RECURSIVE MembersText(_)
MembersText(fields) ==
  IF fields = << >> THEN << >>
  ELSE LET f == fields[1]
           member == <<Quote>> \o f.key \o <<Quote, ":">> \o ValueText(f.val)
       IN IF Len(fields) = 1 THEN member
          ELSE member \o <<",">> \o MembersText(Tail(fields))

JSON_stringify(obj) == <<"{">> \o MembersText(obj.fields) \o <<"}">>

\* JSON.parse, by recursive descent over the text: a parser evaluates to
\* whether it accepted, the value it read and the text left.
Rejected == [ ok |-> FALSE, val |-> << >>, rest |-> << >> ]
Accepted(val, rest) == [ ok |-> TRUE, val |-> val, rest |-> rest ]

RECURSIVE DigitsLen(_)
DigitsLen(text) ==
  IF text # << >> /\ IsDigit(text[1]) THEN 1 + DigitsLen(Tail(text)) ELSE 0

RECURSIVE DigitsValue(_)
DigitsValue(digits) ==
  IF digits = << >> THEN 0
  ELSE DigitsValue(SubSeq(digits, 1, Len(digits) - 1)) * 10
         + DigitVal(digits[Len(digits)])

ParseNumber(text) ==
  LET n == DigitsLen(text)
  IN IF n = 0 \/ (n > 1 /\ text[1] = "0") THEN Rejected
     ELSE Accepted(Num(DigitsValue(SubSeq(text, 1, n))),
                   SubSeq(text, n + 1, Len(text)))

RECURSIVE ClosingQuote(_, _)
ClosingQuote(text, i) ==
  IF i > Len(text) THEN 0
  ELSE IF text[i] = Quote THEN i ELSE ClosingQuote(text, i + 1)

ParseString(text) ==
  IF text = << >> \/ text[1] # Quote THEN Rejected
  ELSE LET close == ClosingQuote(text, 2)
       IN IF close = 0 THEN Rejected
          ELSE Accepted(SubSeq(text, 2, close - 1),
                        SubSeq(text, close + 1, Len(text)))

ParseValue(text) ==
  IF text = << >> THEN Rejected
  ELSE IF text[1] = Quote
       THEN LET r == ParseString(text)
            IN IF r.ok THEN Accepted(Str(r.val), r.rest) ELSE Rejected
       ELSE ParseNumber(text)

\* A member read twice keeps its first place and takes the later value.
PutField(fields, key, val) ==
  IF \E i \in 1 .. Len(fields) : fields[i].key = key
  THEN [ i \in 1 .. Len(fields) |->
           IF fields[i].key = key THEN Field(key, val) ELSE fields[i] ]
  ELSE Append(fields, Field(key, val))

RECURSIVE ParseMembers(_, _)
ParseMembers(text, fields) ==
  LET k == ParseString(text)
  IN IF ~k.ok \/ k.rest = << >> \/ k.rest[1] # ":" THEN Rejected
     ELSE LET v == ParseValue(Tail(k.rest))
          IN IF ~v.ok \/ v.rest = << >> THEN Rejected
             ELSE LET got == PutField(fields, k.val, v.val)
                  IN IF v.rest[1] = "}" THEN Accepted(got, Tail(v.rest))
                     ELSE IF v.rest[1] = "," THEN ParseMembers(Tail(v.rest), got)
                     ELSE Rejected

ParseObject(text) ==
  IF Len(text) < 2 \/ text[1] # "{" THEN Rejected
  ELSE IF text[2] = "}" THEN Accepted(<< >>, SubSeq(text, 3, Len(text)))
  ELSE ParseMembers(Tail(text), << >>)

\* The prototype of an object literal, and of what JSON.parse returns.
ObjectPrototype == [ name |-> "Object.prototype", fields |-> << >>, methods |-> { } ]

SyntaxError == "SyntaxError"

JSON_parse(text) ==
  LET r == ParseObject(text)
  IN IF r.ok /\ r.rest = << >>
     THEN Done([ fields |-> r.val, proto |-> ObjectPrototype ])
     ELSE Thrown([ fields |-> << >>, proto |-> ObjectPrototype ], SyntaxError)

getJSON(obj) == JSON_stringify(obj)

\* Variant: the prototype's own fields are copied into the parsed object.
fromJSON_assign(proto, text) ==
  LET objFromJson == JSON_parse(text)
  IN IF objFromJson.thrown # NoError THEN objFromJson
     ELSE Done([ fields |-> objFromJson.obj.fields \o proto.fields,
                 proto |-> proto ])

fromJSON(proto, text) ==
  LET objFromJson == JSON_parse(text)
  IN IF objFromJson.thrown # NoError THEN objFromJson
     ELSE Done([ objFromJson.obj EXCEPT !.proto = proto ])

\* The values and prototypes the caller draws from.
FieldKeys == { <<"w", "i", "d", "t", "h">>, <<"h", "e", "i", "g", "h", "t">>,
               <<"r", "a", "d", "i", "u", "s">> }
FieldVals == { Num(0), Num(10), Num(205), Str(<<"p", "x">>) }

RECURSIVE FieldSeqs(_)
FieldSeqs(n) ==
  IF n = 0 THEN { << >> }
  ELSE LET shorter == FieldSeqs(n - 1)
       IN shorter \cup
          { Append(fs, Field(k, v)) :
              fs \in { q \in shorter : Len(q) = n - 1 },
              k \in FieldKeys, v \in FieldVals }

DistinctKeys(fs) ==
  \A i, j \in 1 .. Len(fs) : i # j => fs[i].key # fs[j].key

PlainValues == { fs \in FieldSeqs(MaxFields) : DistinctKeys(fs) }

Protos ==
  { [ name |-> "Rectangle.prototype", fields |-> << >>,
      methods |-> { "getArea" } ],
    [ name |-> "Circle.prototype",
      fields |-> << Field(<<"r", "a", "d", "i", "u", "s">>, Num(10)) >>,
      methods |-> { "getArea" } ] }

\* The caller of getJSON and fromJSON before it has chosen anything.
NoTrip == [ pc |-> "idle" ]

\* const text = getJSON(value)
CallGetJSON ==
  /\ trip.pc = "chosen"
  /\ trip' = [ trip EXCEPT
                 !.pc = "serialized",
                 !.text = getJSON([ fields |-> trip.value,
                                    proto |-> ObjectPrototype ]) ]
  /\ UNCHANGED << objs, hist, last, room >>

\* const obj = fromJSON(proto, text)
CallFromJSON ==
  /\ trip.pc = "serialized"
  /\ LET res == fromJSON(trip.proto, trip.text)
     IN trip' = [ trip EXCEPT
                    !.pc = IF res.thrown = NoError THEN "parsed" ELSE "threw",
                    !.obj = res.obj ]
  /\ UNCHANGED << objs, hist, last, room >>

\* After the module is loaded no MyBuilder exists; the facade has no fields.
Init ==
  /\ objs = << >>
  /\ hist = << >>
  /\ last = NoCall
  /\ room = MaxCalls
  /\ trip = NoTrip

Next ==
  \/ \E value \in Texts : cssSelectorBuilder_element(value)
  \/ \E value \in Texts : cssSelectorBuilder_id(value)
  \/ \E value \in Texts : cssSelectorBuilder_class(value)
  \/ \E value \in Texts : cssSelectorBuilder_attr(value)
  \/ \E value \in Texts : cssSelectorBuilder_pseudoClass(value)
  \/ \E value \in Texts : cssSelectorBuilder_pseudoElement(value)
  \/ \E self \in Refs, str \in Texts : element(self, str)
  \/ \E self \in Refs, str \in Texts : id(self, str)
  \/ \E self \in Refs, str \in Texts : class(self, str)
  \/ \E self \in Refs, str \in Texts : attr(self, str)
  \/ \E self \in Refs, str \in Texts : pseudoClass(self, str)
  \/ \E self \in Refs, str \in Texts : pseudoElement(self, str)
  \/ \E self \in Refs : stringify(self)
  \/ \E selector1 \in Refs, combinator \in Combinators, selector2 \in Refs :
       cssSelectorBuilder_combine(selector1, combinator, selector2)

Spec == Init /\ [][Next]_vars

\* Two builders fresh from the facade, a left and a right operand: the
\* caller combines left with right and then goes on calling both.
FacadeNames == << "new element", "new id", "new class", "new attr",
                 "new pseudoClass", "new pseudoElement" >>

InitPair ==
  \E type1 \in PartTypes, type2 \in PartTypes, value1 \in Texts, value2 \in Texts :
    /\ objs = << constructor(value1, type1).obj, constructor(value2, type2).obj >>
    /\ hist = << << PartEvent(type1, value1) >>, << PartEvent(type2, value2) >> >>
    /\ last = [ NoCall EXCEPT !.op = FacadeNames[type2 + 1], !.retObj = 2 ]
    /\ room = MaxPairCalls
    /\ trip = NoTrip

Combined == Len(hist[1]) > 1

NextPair ==
  \/ \E combinator \in Combinators :
       ~Combined /\ cssSelectorBuilder_combine(1, combinator, 2)
  \/ \E self \in Refs, str \in Texts : Combined /\ element(self, str)
  \/ \E self \in Refs, str \in Texts : Combined /\ id(self, str)
  \/ \E self \in Refs, str \in Texts : Combined /\ class(self, str)
  \/ \E self \in Refs, str \in Texts : Combined /\ attr(self, str)
  \/ \E self \in Refs, str \in Texts : Combined /\ pseudoClass(self, str)
  \/ \E self \in Refs, str \in Texts : Combined /\ pseudoElement(self, str)
  \/ \E self \in Refs : Combined /\ stringify(self)
  \/ \E combinator \in Combinators, selector2 \in Refs :
       Combined /\ cssSelectorBuilder_combine(2, combinator, selector2)

SpecPair == InitPair /\ [][NextPair]_vars

\* Three builders a, b, c fresh from the facade, references 1, 2, 3, and a
\* caller that evaluates either combine(a, s, combine(b, t, c)) or
\* combine(combine(a, s, b), t, c), then a.stringify().
InitAssoc ==
  \E typeA \in PartTypes, typeB \in PartTypes, typeC \in PartTypes,
     value \in Texts :
    /\ objs = << constructor(value, typeA).obj, constructor(value, typeB).obj,
                 constructor(value, typeC).obj >>
    /\ hist = << << PartEvent(typeA, value) >>, << PartEvent(typeB, value) >>,
                 << PartEvent(typeC, value) >> >>
    /\ last = [ NoCall EXCEPT !.op = FacadeNames[typeC + 1], !.retObj = 3 ]
    /\ room = MaxPairCalls
    /\ trip = NoTrip

RightNestedDone == Len(hist[1]) = 2 /\ Len(hist[2]) = 2
LeftNestedDone == Len(hist[1]) = 3

NextAssoc ==
  \/ \E t \in Combinators :
       /\ Len(hist[1]) = 1 /\ Len(hist[2]) = 1
       /\ cssSelectorBuilder_combine(2, t, 3)
  \/ \E s \in Combinators :
       /\ Len(hist[1]) = 1 /\ Len(hist[2]) = 2
       /\ cssSelectorBuilder_combine(1, s, 2)
  \/ \E s \in Combinators :
       /\ Len(hist[1]) = 1 /\ Len(hist[2]) = 1
       /\ cssSelectorBuilder_combine(1, s, 2)
  \/ \E t \in Combinators :
       /\ Len(hist[1]) = 2 /\ Len(hist[2]) = 1
       /\ cssSelectorBuilder_combine(1, t, 3)
  \/ (RightNestedDone \/ LeftNestedDone) /\ stringify(1)

SpecAssoc == InitAssoc /\ [][NextAssoc]_vars

\* A caller that serializes a plain value and reads it back with a prototype.
InitJSON ==
  /\ objs = << >>
  /\ hist = << >>
  /\ last = NoCall
  /\ room = 0
  /\ trip \in { [ pc |-> "chosen", value |-> v, proto |-> P, text |-> << >>,
                   obj |-> [ fields |-> << >>, proto |-> ObjectPrototype ] ] :
                 v \in PlainValues, P \in Protos }

NextJSON ==
  \/ CallGetJSON
  \/ CallFromJSON

SpecJSON == InitJSON /\ [][NextJSON]_vars

\* ---- the state is well formed ----
TypeOK ==
  /\ Len(objs) <= MaxBuilders
  /\ Len(hist) = Len(objs)
  /\ room = MaxCalls - TotalCalls
  /\ \A r \in Refs : /\ Len(objs[r].partsPresence) = 6
                     /\ \A i \in 1 .. 6 : objs[r].partsPresence[i] \in Nat

\* ---- vocabulary of the properties ----

\* The append methods, and the fixed order of the kinds they append:
\* ELEMENT < ID < CLASS < ATTRIBUTE < PSEUDO_CLASS < PSEUDO_ELEMENT.
AppendOps == { "element", "id", "class", "attr", "pseudoClass", "pseudoElement" }
FacadeOps == { "new element", "new id", "new class", "new attr",
               "new pseudoClass", "new pseudoElement" }

KindOfOp(op) ==
  CASE op \in { "element", "new element" }             -> 0
    [] op \in { "id", "new id" }                       -> 1
    [] op \in { "class", "new class" }                 -> 2
    [] op \in { "attr", "new attr" }                   -> 3
    [] op \in { "pseudoClass", "new pseudoClass" }     -> 4
    [] op \in { "pseudoElement", "new pseudoElement" } -> 5

SingleKinds == { 0, 1, 5 }
RepeatableKinds == { 2, 3, 4 }

\* The occurrence count of a kind, and whether a strictly later kind occurs.
CountOf(obj, kind) == obj.partsPresence[kind + 1]
HasLater(obj, kind) == \E k \in PartTypes : k > kind /\ CountOf(obj, k) > 0

\* The rendering of a fragment, as the contract of the append operations
\* states it.
Rendering(kind, text) ==
  CASE kind = 0 -> text
    [] kind = 1 -> <<"#">> \o text
    [] kind = 2 -> <<".">> \o text
    [] kind = 3 -> <<"[">> \o text \o <<"]">>
    [] kind = 4 -> <<":">> \o text
    [] kind = 5 -> <<":", ":">> \o text

\* The step just taken is a call of an append method on instance last'.self.
AppendStep == last'.op \in AppendOps
Succeeded == last'.thrown = NoError

\* The event a successful mutating call has just added to the history of
\* instance r: it holds the arguments of the call.
Added(r) == hist'[r][Len(hist'[r])]
Latest(r) == hist[r][Len(hist[r])]

\* The kinds of the fragments appended in a history, in call order.
PartKinds(h) ==
  LET parts == SelectSeq(h, LAMBDA e : e.ev = "part")
  IN [ i \in 1 .. Len(parts) |-> parts[i].type ]

NonDecreasing(ks) == \A i, j \in 1 .. Len(ks) : i < j => ks[i] <= ks[j]

\* C1: on every builder the kinds of the successfully appended fragments,
\* in call order, never go back in the fixed order: no append of a kind
\* earlier than one already appended ever succeeds.
C1_OrderNeverGoesBack ==
  \A r \in Refs : NonDecreasing(PartKinds(hist[r]))

\* Three fragments of rising kinds are on a builder and an append of an
\* earlier kind has just been refused.
C1_Witness ==
  /\ last.op \in AppendOps
  /\ last.thrown = OutOfOrderError
  /\ Len(PartKinds(hist[last.self])) >= 2
  /\ PartKinds(hist[last.self])[1] < PartKinds(hist[last.self])[2]
  /\ KindOfOp(last.op) < PartKinds(hist[last.self])[2]

\* C2: appendElement, appendId and appendPseudoElement called while the
\* count of their own kind is nonzero fail with DuplicateFragmentError,
\* whatever the other counts are.
C2_DuplicateRaised ==
  [][ (AppendStep /\ KindOfOp(last'.op) \in SingleKinds
         /\ CountOf(objs[last'.self], KindOfOp(last'.op)) > 0)
      => last'.thrown = DuplicateFragmentError ]_vars

\* A second element was refused as a duplicate on a builder that also holds
\* a later kind.
C2_Witness ==
  /\ last.op \in { "element", "id" }
  /\ last.thrown = DuplicateFragmentError
  /\ HasLater(objs[last.self], KindOfOp(last.op))

\* C3 as stated: every append made while a strictly later kind is present
\* raises OutOfOrderError.
C3_Original ==
  [][ (AppendStep /\ HasLater(objs[last'.self], KindOfOp(last'.op)))
      => last'.thrown = OutOfOrderError ]_vars

\* C3 amended: every append made while a strictly later kind is present is
\* refused: with DuplicateFragmentError when the kind is ELEMENT or ID and
\* its own count is already nonzero, with OutOfOrderError otherwise.
C3_OutOfOrderRaised ==
  [][ (AppendStep /\ HasLater(objs[last'.self], KindOfOp(last'.op)))
      => last'.thrown =
           IF /\ KindOfOp(last'.op) \in SingleKinds
              /\ CountOf(objs[last'.self], KindOfOp(last'.op)) > 0
           THEN DuplicateFragmentError
           ELSE OutOfOrderError ]_vars

\* An append of a kind not yet on the builder was refused as out of order.
C3_Witness ==
  /\ last.op \in AppendOps
  /\ last.thrown = OutOfOrderError
  /\ HasLater(objs[last.self], KindOfOp(last.op))
  /\ CountOf(objs[last.self], KindOfOp(last.op)) = 0

\* C4: an append of kind K succeeds whenever no later kind is present and K
\* is repeatable or absent; in particular a builder seeded with B accepts a
\* later kind A, and a builder seeded with A refuses an earlier kind B with
\* OutOfOrderError.
C4_AcceptedWhenAllowed ==
  [][ AppendStep =>
      LET obj  == objs[last'.self]
          kind == KindOfOp(last'.op)
          h    == hist[last'.self]
      IN /\ (/\ ~HasLater(obj, kind)
             /\ (kind \in RepeatableKinds \/ CountOf(obj, kind) = 0))
            => Succeeded
         /\ (Len(h) = 1 /\ h[1].type < kind) => Succeeded
         /\ (Len(h) = 1 /\ h[1].type > kind)
            => last'.thrown = OutOfOrderError ]_vars

\* A builder seeded with one kind has accepted a strictly later kind.
C4_Witness ==
  /\ last.op \in AppendOps
  /\ last.thrown = NoError
  /\ Len(hist[last.self]) = 2
  /\ hist[last.self][1].type < KindOfOp(last.op)

\* The text a history renders to: each fragment by its rendering, each
\* combine by a space, the symbol, a space and the right-hand text.
RenderEvent(e) ==
  IF e.ev = "part"
  THEN Rendering(e.type, e.str)
  ELSE <<" ">> \o e.combinator \o <<" ">> \o e.lineStr

RECURSIVE RenderHist(_)
RenderHist(h) ==
  IF h = << >> THEN << >>
  ELSE RenderHist(SubSeq(h, 1, Len(h) - 1)) \o RenderEvent(h[Len(h)])

NeverCombined(h) == \A i \in 1 .. Len(h) : h[i].ev = "part"

\* For a builder never combined, stringify() is the concatenation, in call
\* order, of the renderings of its fragments, the seed included.
TextIsConcatenation ==
  \A r \in Refs :
    NeverCombined(hist[r]) => MyBuilder_stringify(objs[r]) = RenderHist(hist[r])

\* C5: a successful append adds exactly the rendering of its kind at the end
\* of the text, adds one to the count of its kind only, and returns the same
\* instance; the text of a builder never combined is the concatenation of
\* the renderings of its fragments.
C5_AppendRenders ==
  [][ /\ (AppendStep /\ Succeeded) =>
           LET r    == last'.self
               kind == KindOfOp(last'.op)
           IN /\ objs'[r].line = objs[r].line \o Rendering(kind, Added(r).str)
              /\ objs'[r].partsPresence =
                   [ objs[r].partsPresence EXCEPT ![kind + 1] = @ + 1 ]
              /\ last'.retObj = r
              /\ \A q \in Refs \ { r } : objs'[q] = objs[q]
      /\ TextIsConcatenation' ]_vars

\* A pseudo-element has just been appended as the third fragment of a
\* builder never combined.
C5_Witness ==
  /\ last.op = "pseudoElement"
  /\ last.thrown = NoError
  /\ Len(hist[last.self]) = 3
  /\ NeverCombined(hist[last.self])

\* C6: combine(left, symbol, right) makes left's text its former text, a
\* space, the symbol, a space and right's text, returns left, and leaves
\* left's counts alone; with the symbol ' ' three spaces separate the texts.
C6_CombineText ==
  [][ last'.op = "combine" =>
      LET l   == last'.self
          old == objs[l].line
      IN /\ last'.thrown = NoError
         /\ last'.retObj = l
         /\ objs'[l].line = old \o <<" ">> \o Added(l).combinator \o <<" ">>
                                \o MyBuilder_stringify(objs[last'.other])
         /\ objs'[l].partsPresence = objs[l].partsPresence
         /\ Added(l).combinator = <<" ">> =>
              /\ SubSeq(objs'[l].line, Len(old) + 1, Len(old) + 3)
                   = <<" ", " ", " ">>
              /\ Len(objs'[l].line)
                   = Len(old) + 3 + Len(objs[last'.other].line) ]_vars

\* Two different builders have just been combined with the symbol ' '.
C6_Witness ==
  /\ last.op = "combine"
  /\ Latest(last.self).combinator = <<" ">>
  /\ last.other # last.self
  /\ Len(objs[last.self].line) >= 5

\* C7: stringify() returns the current text, never throws and changes no
\* builder, so a second call returns the same text and every call that was
\* legal before it behaves the same after it.
C7_StringifyPure ==
  [][ last'.op = "stringify" =>
      /\ last'.thrown = NoError
      /\ last'.retStr = objs[last'.self].line
      /\ objs' = objs
      /\ (last.op = "stringify" /\ last.self = last'.self)
           => last'.retStr = last.retStr ]_vars

\* stringify() has just returned the text of a builder of two fragments.
C7_Witness ==
  /\ last.op = "stringify"
  /\ Len(hist[last.self]) >= 2
  /\ last.retStr = objs[last.self].line
  /\ Len(last.retStr) >= 2

\* C8: on every builder ELEMENT, ID and PSEUDO_ELEMENT each occur at most
\* once.
C8_SingleKindsAtMostOnce ==
  \A r \in Refs : \A k \in SingleKinds : CountOf(objs[r], k) <= 1

\* A repeatable kind occurs twice on a builder, and an append of a single
\* kind has just been refused as a repetition.
C8_Witness ==
  /\ \E r \in Refs : \E k \in RepeatableKinds : CountOf(objs[r], k) >= 2
  /\ last.thrown = DuplicateFragmentError

RECURSIVE SumSeq(_)
SumSeq(q) == IF q = << >> THEN 0 ELSE q[1] + SumSeq(Tail(q))

NeverEmpty == \A r \in Refs : SumSeq(objs[r].partsPresence) >= 1

\* C9: each facade entry point returns a new builder that counts 1 for the
\* matching kind and 0 for the others and whose text is that kind's
\* rendering of the value; construction never throws; a builder never has
\* all its counts at zero.
C9_FacadeSeedsOne ==
  [][ /\ last'.op \in FacadeOps =>
           LET kind == KindOfOp(last'.op)
               r    == last'.retObj
           IN /\ last'.thrown = NoError
              /\ r = Len(objs) + 1
              /\ Len(objs') = r
              /\ objs'[r].partsPresence =
                   [ i \in 1 .. 6 |-> IF i = kind + 1 THEN 1 ELSE 0 ]
              /\ objs'[r].line = Rendering(kind, Added(r).str)
              /\ \A q \in Refs : objs'[q] = objs[q]
      /\ NeverEmpty' ]_vars

\* The facade has just made a second builder.
C9_Witness ==
  /\ last.op \in FacadeOps
  /\ last.retObj = 2
  /\ Len(objs) = 2
  /\ NeverEmpty

Count(ch, text) == Cardinality({ i \in 1 .. Len(text) : text[i] = ch })

PrefixOf(kind) ==
  CASE kind = 2 -> "." [] kind = 3 -> "[" [] kind = 4 -> ":"

\* h ends with n fragments of the kind, appended in a row.
EndsWithRun(h, n, kind) ==
  \A i \in Len(h) - n + 1 .. Len(h) : h[i].ev = "part" /\ h[i].type = kind

\* C10: appending CLASS, ATTRIBUTE or PSEUDO_CLASS never raises
\* DuplicateFragmentError, and after N appends of one of them in a row the
\* text holds N occurrences of its prefix on top of those of the text before
\* the run and of the raw values.
C10_RepeatableRuns ==
  /\ last.op \in { "class", "attr", "pseudoClass" }
       => last.thrown # DuplicateFragmentError
  /\ \A r \in Refs : \A n \in 1 .. Len(hist[r]) : \A k \in RepeatableKinds :
       EndsWithRun(hist[r], n, k) =>
         LET h    == hist[r]
             base == RenderHist(SubSeq(h, 1, Len(h) - n))
             raw  == [ i \in 1 .. n |-> Count(PrefixOf(k), h[Len(h) - n + i].str) ]
         IN /\ Count(PrefixOf(k), objs[r].line) >= n
            /\ Count(PrefixOf(k), objs[r].line)
                 = Count(PrefixOf(k), base) + n + SumSeq(raw)

\* A repeatable kind has just been appended a second time in a row to a
\* builder seeded with another kind.
C10_Witness ==
  /\ last.op \in { "class", "attr", "pseudoClass" }
  /\ last.thrown = NoError
  /\ Len(hist[last.self]) = 3
  /\ EndsWithRun(hist[last.self], 2, KindOfOp(last.op))
  /\ ~EndsWithRun(hist[last.self], 3, KindOfOp(last.op))

\* The own value of a property of an object, and whether the object answers
\* to a method through its prototype.
OwnKeys(obj) == { obj.fields[i].key : i \in 1 .. Len(obj.fields) }
Exposes(obj, method) == method \in obj.proto.methods

Verdict(ks, kind) ==
  IF kind \in SingleKinds /\ \E i \in 1 .. Len(ks) : ks[i] = kind
  THEN DuplicateFragmentError
  ELSE IF \E i \in 1 .. Len(ks) : ks[i] > kind
       THEN OutOfOrderError
       ELSE NoError

\* C12: once left has been combined with right, an append on left is accepted
\* or refused by left's own fragments alone, whatever kinds right holds, and
\* an accepted fragment is rendered after the combined text.
C12_CombineKeepsVerdicts ==
  [][ (AppendStep /\ ~NeverCombined(hist[last'.self])) =>
      LET l    == last'.self
          kind == KindOfOp(last'.op)
      IN /\ last'.thrown = Verdict(PartKinds(hist[l]), kind)
         /\ Succeeded =>
              objs'[l].line
                = RenderHist(hist[l]) \o Rendering(kind, Added(l).str) ]_vars

\* Left, seeded with an id and combined with a right that holds a
\* pseudo-element, has accepted a class.
C12_Witness ==
  /\ last.op = "class"
  /\ last.self = 1
  /\ last.thrown = NoError
  /\ Len(hist[1]) = 3
  /\ hist[1][1].type = 1
  /\ hist[1][2].ev = "tail"
  /\ CountOf(objs[2], 5) > 0

IsPrefix(p, text) ==
  Len(p) <= Len(text) /\ SubSeq(text, 1, Len(p)) = p

\* C13: combine(left, symbol, right) leaves right's text and counts as they
\* were, and what left received is a copy: left's text keeps beginning with
\* its own text, the symbol and the text right had at the combine, and no
\* later call on right changes left.
C13_RightOnlyRead ==
  [][ /\ (last'.op = "combine" /\ last'.other # last'.self)
           => objs'[last'.other] = objs[last'.other]
      /\ (last'.op \in AppendOps \cup { "combine" } /\ last'.self = 2)
           => objs'[1] = objs[1]
      /\ Len(hist'[1]) > 1 =>
           IsPrefix(Rendering(hist'[1][1].type, hist'[1][1].str)
                      \o <<" ">> \o hist'[1][2].combinator \o <<" ">>
                      \o Rendering(hist'[2][1].type, hist'[2][1].str),
                    MyBuilder_stringify(objs'[1])) ]_vars

\* After the combine a fragment has been appended to right, whose text now
\* differs from the text left received.
C13_Witness ==
  /\ last.op \in AppendOps
  /\ last.self = 2
  /\ last.thrown = NoError
  /\ Len(hist[1]) = 2
  /\ hist[1][2].ev = "tail"
  /\ hist[1][2].lineStr # objs[2].line

\* How many of the kinds ks are the kind.
Occurrences(ks, kind) == Cardinality({ i \in 1 .. Len(ks) : ks[i] = kind })

\* A builder is what its own calls, run alone, make of it.
RunAlone ==
  \A r \in Refs :
    /\ MyBuilder_stringify(objs[r]) = RenderHist(hist[r])
    /\ \A k \in PartTypes :
         CountOf(objs[r], k) = Occurrences(PartKinds(hist[r]), k)

\* C14: a call on one builder leaves every other builder alone and is
\* answered by that builder's own calls only; a facade call changes no
\* existing builder and its builder starts in the same state whatever was
\* built before.
C14_Isolated ==
  [][ /\ (last'.op \in AppendOps \cup { "stringify" }) =>
           \A q \in Refs \ { last'.self } : objs'[q] = objs[q]
      /\ AppendStep =>
           last'.thrown
             = Verdict(PartKinds(hist[last'.self]), KindOfOp(last'.op))
      /\ (last'.op \in FacadeOps) =>
           /\ \A q \in Refs : objs'[q] = objs[q]
           /\ \A k \in PartTypes :
                CountOf(objs'[last'.retObj], k)
                  = IF k = KindOfOp(last'.op) THEN 1 ELSE 0
           /\ objs'[last'.retObj].line
                = Rendering(KindOfOp(last'.op), Added(last'.retObj).str)
      /\ RunAlone' ]_vars

\* Calls on two builders were interleaved: the second builder has grown and
\* the first has then refused an append for its own fragments.
C14_Witness ==
  /\ Len(objs) = 2
  /\ Len(hist[2]) = 2
  /\ last.op \in AppendOps
  /\ last.self = 1
  /\ last.thrown = OutOfOrderError
  /\ objs[1].partsPresence # objs[2].partsPresence

\* C15: an append that throws changes no builder: text and counts are what
\* they were, so whatever was legal before the call is legal after it.
C15_RejectedIsAtomic ==
  [][ (AppendStep /\ ~Succeeded) =>
        /\ last'.thrown \in { DuplicateFragmentError, OutOfOrderError }
        /\ objs' = objs
        /\ hist' = hist
        /\ last'.retObj = 0 ]_vars

\* An append has just been refused on a builder of two fragments.
C15_Witness ==
  /\ last.op \in AppendOps
  /\ last.thrown = OutOfOrderError
  /\ Len(hist[last.self]) = 2
  /\ SumSeq(objs[last.self].partsPresence) = 2

\* The symbols and the texts of the two ways of nesting.
TextOfSeed(r) == Rendering(hist[r][1].type, hist[r][1].str)
Joined(a, s, b, t, c) ==
  a \o <<" ">> \o s \o <<" ">> \o b \o <<" ">> \o t \o <<" ">> \o c

\* C16: combine(a, s, combine(b, t, c)) and combine(combine(a, s, b), t, c)
\* both leave a with a's text, s, b's text, t and c's text, each symbol
\* between two spaces.
C16_CombineAssociative ==
  /\ RightNestedDone =>
       MyBuilder_stringify(objs[1])
         = Joined(TextOfSeed(1), hist[1][2].combinator, TextOfSeed(2),
                  hist[2][2].combinator, TextOfSeed(3))
  /\ LeftNestedDone =>
       MyBuilder_stringify(objs[1])
         = Joined(TextOfSeed(1), hist[1][2].combinator, TextOfSeed(2),
                  hist[1][3].combinator, TextOfSeed(3))
  /\ (last.op = "stringify" /\ RightNestedDone) =>
       last.retStr
         = Joined(TextOfSeed(1), hist[1][2].combinator, TextOfSeed(2),
                  hist[2][2].combinator, TextOfSeed(3))

\* The nesting to the right has been evaluated with two different symbols
\* and a.stringify() has returned.
C16_Witness ==
  /\ RightNestedDone
  /\ hist[1][2].combinator # hist[2][2].combinator
  /\ last.op = "stringify"
  /\ Len(last.retStr) >= 11

\* C17: text and counts only grow: over any step the former text of every
\* builder is a prefix of its text and no count goes down, and no builder
\* goes away.
C17_OnlyGrows ==
  [][ /\ Len(objs') >= Len(objs)
      /\ \A r \in Refs :
           /\ IsPrefix(objs[r].line, objs'[r].line)
           /\ \A k \in PartTypes : CountOf(objs'[r], k) >= CountOf(objs[r], k) ]_vars

\* A builder of two fragments has just been combined, its text grown.
C17_Witness ==
  /\ last.op = "combine"
  /\ Len(hist[last.self]) = 3
  /\ hist[last.self][2].ev = "part"
  /\ Len(objs[last.self].line) > Len(RenderHist(SubSeq(hist[last.self], 1, 2)))
====
